---------------------------- MODULE Spec2Model ----------------------------
(***************************************************************************)
(* A model of slither/utils/upgradeability.py: the comparison of two       *)
(* versions of a contract (compare, get_missing_vars,                      *)
(* is_function_modified and the encodings it compares) and the search for  *)
(* the variable a proxy delegates to (get_proxy_implementation_var,        *)
(* find_delegate_in_fallback, extract_delegate_from_asm,                   *)
(* find_delegate_from_name, create_state_variable_from_slot).              *)
(*                                                                         *)
(* The functions of the file are pure; each gets a specification of its    *)
(* own whose Init draws the arguments from bounded sets and whose actions  *)
(* run the function.  Python strings are TLA+ strings; Python lists are    *)
(* sequences; None is the record None; an exception is a result of its     *)
(* own ("IndexError", "ValueError", ...).                                  *)
(***************************************************************************)
EXTENDS Integers, Sequences, FiniteSets, TLC

VARIABLES
    pc,                         \* where the modelled call stands
    \* create_state_variable_from_slot(slot, name)
    slot, name, created,
    \* is_function_modified(f1, f2)
    f1, f2, queue_f1, queue_f2, visited, modified,
    \* compare(v1, v2)
    v1, v2, missing_vars_in_v2, new_variables, tainted_variables,
    new_functions, modified_functions, tainted_functions,
    new_modified_functions, new_modified_function_vars,
    \* extract_delegate_from_asm(contract, node)
    contract, node, extracted,
    \* get_proxy_implementation_var(proxy)
    proxy, dependencies, delegate

slotVars == <<slot, name, created>>
walkVars == <<f1, f2, queue_f1, queue_f2, visited, modified>>
compareVars == <<v1, v2, missing_vars_in_v2, new_variables, tainted_variables,
                 new_functions, modified_functions, tainted_functions,
                 new_modified_functions, new_modified_function_vars>>
asmVars == <<contract, node, extracted>>
proxyVars == <<proxy, dependencies, delegate>>
vars == <<pc, slotVars, walkVars, compareVars, asmVars, proxyVars>>

(***************************************************************************)
(* Python values.                                                          *)
(***************************************************************************)
None == [cls |-> "None"]

\* The value of a variable no call of the running specification uses.
Idle == "idle"

SlotIdle == slot = Idle /\ name = Idle /\ created = Idle
WalkIdle ==
    /\ f1 = Idle /\ f2 = Idle /\ queue_f1 = Idle /\ queue_f2 = Idle
    /\ visited = Idle /\ modified = Idle
CompareIdle ==
    /\ v1 = Idle /\ v2 = Idle /\ missing_vars_in_v2 = Idle
    /\ new_variables = Idle /\ tainted_variables = Idle
    /\ new_functions = Idle /\ modified_functions = Idle
    /\ tainted_functions = Idle /\ new_modified_functions = Idle
    /\ new_modified_function_vars = Idle
AsmIdle == contract = Idle /\ node = Idle /\ extracted = Idle
ProxyIdle == proxy = Idle /\ dependencies = Idle /\ delegate = Idle

(***************************************************************************)
(* Python's str methods, on TLA+ strings.                                  *)
(***************************************************************************)
\* s.startswith(p)
StartsWith(s, p) == Len(p) <= Len(s) /\ SubSeq(s, 1, Len(p)) = p

\* s.endswith(p)
EndsWith(s, p) ==
    Len(p) <= Len(s) /\ SubSeq(s, Len(s) - Len(p) + 1, Len(s)) = p

\* s.find(sub, from): the first index >= from where sub occurs, 0 for none
Find(s, sub, from) ==
    LET hits == {i \in from..(Len(s) - Len(sub) + 1) :
                    SubSeq(s, i, i + Len(sub) - 1) = sub}
    IN  IF hits = {} THEN 0
        ELSE CHOOSE i \in hits : \A j \in hits : i <= j

\* sub in s
Contains(s, sub) == Find(s, sub, 1) # 0

\* s.split(sep), sep not empty
RECURSIVE Split(_, _)
Split(s, sep) ==
    LET i == Find(s, sep, 1) IN
    IF i = 0 THEN <<s>>
    ELSE <<SubSeq(s, 1, i - 1)>> \o Split(SubSeq(s, i + Len(sep), Len(s)), sep)

\* s.replace(old, new), old not empty
RECURSIVE Replace(_, _, _)
Replace(s, old, new) ==
    LET i == Find(s, old, 1) IN
    IF i = 0 THEN s
    ELSE SubSeq(s, 1, i - 1) \o new \o
         Replace(SubSeq(s, i + Len(old), Len(s)), old, new)

Digits == {"0", "1", "2", "3", "4", "5", "6", "7", "8", "9"}
HexDigits == Digits \cup {"a", "b", "c", "d", "e", "f",
                          "A", "B", "C", "D", "E", "F"}

\* every character of s is in the set chars
AllIn(s, chars) == \A i \in 1..Len(s) : SubSeq(s, i, i) \in chars

\* s.isnumeric(), on ASCII text
IsNumeric(s) == Len(s) > 0 /\ AllIn(s, Digits)

\* c repeated n times
RECURSIVE Rep(_, _)
Rep(c, n) == IF n <= 0 THEN "" ELSE c \o Rep(c, n - 1)

(***************************************************************************)
(* ntype(_type).  A type is a record: cls is its class, text its str();    *)
(* an ArrayType carries the class of its element type (elem), a            *)
(* UserDefinedType the class and the name of what it wraps (of, of_name).  *)
(***************************************************************************)
ElementaryType(t) == [cls |-> "ElementaryType", text |-> t]
ArrayType(t, elem) == [cls |-> "ArrayType", text |-> t, elem |-> elem]
UserDefinedType(t, of, of_name) ==
    [cls |-> "UserDefinedType", text |-> t, of |-> of, of_name |-> of_name]
OtherType(cls, t) == [cls |-> cls, text |-> t]

\* lines 231-252: the text the type is first turned into
ntype_text(t) ==
    IF t.cls = "ElementaryType" THEN t.text
    ELSE IF t.cls = "ArrayType"
         THEN IF t.elem = "ElementaryType" THEN t.text
              ELSE "user_defined_array"
    ELSE IF t.cls \in {"Structure", "Enum", "MappingType"} THEN t.text
    ELSE IF t.cls = "UserDefinedType"
         THEN IF t.of = "Contract" THEN "contract(" \o t.of_name \o ")"
              ELSE IF t.of = "Structure" THEN "struct(" \o t.of_name \o ")"
              ELSE "enum(" \o t.of_name \o ")"
    ELSE t.text

ntype(t) ==
    LET s == Replace(Replace(ntype_text(t), " memory", ""), " storage ref", "")
    IN  IF Contains(s, "struct") THEN "struct"
        ELSE IF Contains(s, "enum") THEN "enum"
        ELSE IF Contains(s, "tuple") THEN "tuple"
        ELSE IF Contains(s, "contract") THEN "contract"
        ELSE IF Contains(s, "mapping") THEN "mapping"
        ELSE Replace(s, " ", "_")

(***************************************************************************)
(* encode_var_for_compare(var) and encode_ir_for_compare(ir).  A variable  *)
(* is a record: cls its class, name its name (str(var)), type its type,    *)
(* location its data location.  An operation is a record: cls its class,   *)
(* and the fields of that class the encoding reads.                        *)
(***************************************************************************)
Var(cls, n, type, location) ==
    [cls |-> cls, name |-> n, type |-> type, location |-> location]

\* the classes isinstance(var, LocalVariable) accepts
LocalVariableClasses == {"LocalVariable", "LocalVariableInitFromTuple"}

encode_var_for_compare(var) ==
    IF var.cls = "Constant" THEN "constant(" \o ntype(var.type) \o ")"
    ELSE IF var.cls = "SolidityVariableComposed"
         THEN "solidity_variable_composed(" \o var.name \o ")"
    ELSE IF var.cls = "SolidityVariable" THEN "solidity_variable" \o var.name
    ELSE IF var.cls = "TemporaryVariable" THEN "temporary_variable"
    ELSE IF var.cls = "ReferenceVariable"
         THEN "reference(" \o ntype(var.type) \o ")"
    ELSE IF var.cls \in LocalVariableClasses
         THEN "local_solc_variable(" \o var.location \o ")"
    ELSE IF var.cls = "StateVariable"
         THEN "state_solc_variable(" \o ntype(var.type) \o ")"
    \* a LocalVariableInitFromTuple is a LocalVariable: line 346 is not reached
    ELSE IF var.cls = "TupleVariable" THEN "tuple_variable"
    ELSE ""

encode_ir_for_compare(ir) ==
    IF ir.cls = "Assignment"
    THEN "(" \o encode_var_for_compare(ir.lvalue) \o "):=("
             \o encode_var_for_compare(ir.rvalue) \o ")"
    ELSE IF ir.cls = "Index" THEN "index(" \o ntype(ir.index_type) \o ")"
    ELSE IF ir.cls = "Member" THEN "member"
    ELSE IF ir.cls = "Length" THEN "length"
    ELSE IF ir.cls = "Binary"
         THEN "binary(" \o ir.variable_left.name \o ir.type
                        \o ir.variable_right.name \o ")"
    ELSE IF ir.cls = "Unary" THEN "unary(" \o ir.type \o ")"
    ELSE IF ir.cls = "Condition"
         THEN "condition(" \o encode_var_for_compare(ir.value) \o ")"
    ELSE IF ir.cls = "NewStructure" THEN "new_structure"
    ELSE IF ir.cls = "NewContract" THEN "new_contract"
    ELSE IF ir.cls = "NewArray"
         THEN "new_array(" \o ntype(ir.array_type) \o ")"
    ELSE IF ir.cls = "NewElementaryType"
         THEN "new_elementary(" \o ntype(ir.type) \o ")"
    ELSE IF ir.cls = "Delete"
         THEN "delete(" \o encode_var_for_compare(ir.lvalue) \o ","
                        \o encode_var_for_compare(ir.variable) \o ")"
    ELSE IF ir.cls = "SolidityCall"
         THEN "solidity_call(" \o ir.function.full_name \o ")"
    ELSE IF ir.cls = "InternalCall"
         THEN "internal_call(" \o ntype(ir.type_call) \o ")"
    ELSE IF ir.cls = "EventCall" THEN "event"
    ELSE IF ir.cls = "LibraryCall" THEN "library_call"
    ELSE IF ir.cls = "InternalDynamicCall" THEN "internal_dynamic_call"
    ELSE IF ir.cls = "HighLevelCall" THEN "high_level_call"
    ELSE IF ir.cls = "LowLevelCall" THEN "low_level_call"
    ELSE IF ir.cls = "TypeConversion"
         THEN "type_conversion(" \o ntype(ir.type) \o ")"
    ELSE IF ir.cls = "Return" THEN "return"
    ELSE IF ir.cls = "Transfer"
         THEN "transfer(" \o encode_var_for_compare(ir.call_value) \o ")"
    ELSE IF ir.cls = "Send"
         THEN "send(" \o encode_var_for_compare(ir.call_value) \o ")"
    ELSE IF ir.cls = "Unpack" THEN "unpack"
    ELSE IF ir.cls = "InitArray" THEN "init_array"
    ELSE ""

(***************************************************************************)
(* is_function_modified(f1, f2).  A function's body is a record:           *)
(* content_hash is source_mapping.content_hash, nodes the number of its    *)
(* nodes (1..nodes, node 1 the entry point), sons[n] the list of the sons  *)
(* of node n and irs[n] the list of its operations.  The node n of the     *)
(* function with id i is the object <<i, n>>.                              *)
(***************************************************************************)
\* lines 223-225: the comparison of the operations of two dequeued nodes:
\* "True" (return True), "IndexError" (node_f2.irs[i] with i past the end of
\* the list) or "continue" (the loop ends and the walk goes on)
RECURSIVE compare_irs_from(_, _, _)
compare_irs_from(irs1, irs2, i) ==
    IF i > Len(irs1) THEN "continue"
    ELSE IF i > Len(irs2) THEN "IndexError"
    ELSE IF encode_ir_for_compare(irs1[i]) # encode_ir_for_compare(irs2[i])
         THEN "True"
    ELSE compare_irs_from(irs1, irs2, i + 1)

RECURSIVE compare_irs_identity_from(_, _, _)
compare_irs_identity_from(irs1, irs2, i) ==
    IF i > Len(irs1) THEN "continue"
    ELSE IF i > Len(irs2) THEN "IndexError"
    ELSE IF irs1[i] # irs2[i] THEN "True"
    ELSE compare_irs_identity_from(irs1, irs2, i + 1)

compare_irs_identity(irs1, irs2) == compare_irs_identity_from(irs1, irs2, 1)

compare_irs(irs1, irs2) == compare_irs_from(irs1, irs2, 1)

\* node.sons, whether visited or not
every_son(g, sons, vis) == sons

\* [son for son in node.sons if son not in visited], of node n of function g
RECURSIVE unvisited_sons(_, _, _)
unvisited_sons(g, sons, vis) ==
    IF sons = <<>> THEN <<>>
    ELSE (IF \E k \in 1..Len(vis) : vis[k] = <<g.id, Head(sons)>>
          THEN <<>> ELSE <<Head(sons)>>)
         \o unvisited_sons(g, Tail(sons), vis)

\* lines 218-225: one turn of the while loop, from queues q1, q2 that are not
\* empty and the list vis of visited nodes
walk_step(g1, g2, q1, q2, vis) ==
    LET node_f1 == Head(q1)
        node_f2 == Head(q2)
        vis2 == vis \o << <<g1.id, node_f1>>, <<g2.id, node_f2>> >>
    IN  [queue_f1 |-> Tail(q1) \o unvisited_sons(g1, g1.sons[node_f1], vis2),
         queue_f2 |-> Tail(q2) \o unvisited_sons(g2, g2.sons[node_f2], vis2),
         visited |-> vis2,
         result |-> compare_irs(g1.irs[node_f1], g2.irs[node_f2])]

\* lines 217-226: the while loop, to its return value or its exception
RECURSIVE walk(_, _, _, _, _)
walk(g1, g2, q1, q2, vis) ==
    IF ~(Len(q1) > 0 /\ Len(q2) > 0) THEN "False"
    ELSE LET st == walk_step(g1, g2, q1, q2, vis)
         IN  IF st.result # "continue" THEN st.result
             ELSE walk(g1, g2, st.queue_f1, st.queue_f2, st.visited)

\* line 210
same_content_hash(g1, g2) == g1.content_hash = g2.content_hash

is_function_modified_hash_true(g1, g2) ==
    IF same_content_hash(g1, g2) THEN "True"
    ELSE walk(g1, g2, <<1>>, <<1>>, <<>>)

is_function_modified(g1, g2) ==
    IF same_content_hash(g1, g2) THEN "False"
    ELSE walk(g1, g2, <<1>>, <<1>>, <<>>)

(***************************************************************************)
(* compare(v1, v2) and get_missing_vars(v1, v2).  A contract is a record:  *)
(* state_variables_ordered the list of its state variables, functions the  *)
(* list of its functions.  A function is a record: solidity_signature,     *)
(* name, is_constructor, is_constructor_variables, body (what              *)
(* is_function_modified reads), internal_calls (the signatures of the      *)
(* functions of its contract it calls), state_variables_read and           *)
(* state_variables_written.  The signatures of the functions of a contract *)
(* and the names of its state variables are distinct, so that a record     *)
(* stands for one object.                                                  *)
(***************************************************************************)
Range(seq) == {seq[i] : i \in 1..Len(seq)}

\* x in list
In(x, seq) == \E i \in 1..Len(seq) : seq[i] = x

\* lines 87-92, 183-188
order_vars(c) ==
    SelectSeq(c.state_variables_ordered,
              LAMBDA v : ~v.is_constant /\ ~v.is_immutable)

\* lines 93-94
func_sigs(c) ==
    [i \in 1..Len(c.functions) |-> c.functions[i].solidity_signature]

\* Contract.get_function_from_signature, as lines 111-112 use it
get_function_from_signature(c, sig) ==
    IF \E i \in 1..Len(c.functions) : c.functions[i].solidity_signature = sig
    THEN c.functions[CHOOSE i \in 1..Len(c.functions) :
            /\ c.functions[i].solidity_signature = sig
            /\ \A j \in 1..(i - 1) : c.functions[j].solidity_signature # sig]
    ELSE None

\* Contract.get_state_variable_from_name, as line 154 uses it
get_state_variable_from_name(c, n) ==
    LET vs == c.state_variables_ordered IN
    IF \E i \in 1..Len(vs) : vs[i].name = n
    THEN vs[CHOOSE i \in 1..Len(vs) :
            vs[i].name = n /\ \A j \in 1..(i - 1) : vs[j].name # n]
    ELSE None

\* Function.variables_read_or_written, as line 143 uses it
variables_read_or_written(function) ==
    function.state_variables_read \o function.state_variables_written

\* Contract.get_functions_reading_from_variable, line 152
get_functions_reading_from_variable(c, var) ==
    SelectSeq(c.functions, LAMBDA fn : In(var, fn.state_variables_read))

\* Contract.get_functions_writing_to_variable, line 153
get_functions_writing_to_variable(c, var) ==
    SelectSeq(c.functions, LAMBDA fn : In(var, fn.state_variables_written))

\* name.startswith("slither"), line 134
has_slither_prefix(function) == StartsWith(function.name, "slither")

get_missing_vars_any_kind(c1, c2) ==
    IF Len(order_vars(c2)) < Len(order_vars(c1))
    THEN SelectSeq(order_vars(c1),
                   LAMBDA variable :
                       ~\E v \in Range(c2.state_variables_ordered) :
                           v.name = variable.name)
    ELSE <<>>

get_missing_vars(c1, c2) ==
    IF Len(order_vars(c2)) < Len(order_vars(c1))
    THEN SelectSeq(order_vars(c1),
                   LAMBDA variable :
                       ~\E v \in Range(order_vars(c2)) : v.name = variable.name)
    ELSE <<>>

\* lines 104-105
compare_missing(c1, c2) ==
    IF Len(order_vars(c2)) < Len(order_vars(c1))
    THEN get_missing_vars(c1, c2) ELSE <<>>

\* lines 119-126: acc after the turn of the loop for function, a function of
\* v1 too, m being what is_function_modified gave for it ("None" when it
\* was not called); raised is set when is_function_modified raised
record_function(acc, function, m) ==
    IF m = "IndexError" THEN [acc EXCEPT !.raised = TRUE]
    ELSE IF m = "True"
    THEN [acc EXCEPT
            !.new_modified_functions = Append(@, function),
            !.modified_functions = Append(@, function),
            !.new_modified_function_vars =
                @ \o function.state_variables_read
                  \o function.state_variables_written]
    ELSE acc

\* lines 110-126: the loop over func_sigs2 from its k-th turn, acc holding
\* the lists built so far; the loop ends when is_function_modified raises
RECURSIVE find_new_modified(_, _, _, _)
find_new_modified(c1, c2, k, acc) ==
    IF k > Len(func_sigs(c2)) \/ acc.raised THEN acc
    ELSE
      LET sig == func_sigs(c2)[k]
          function == get_function_from_signature(c2, sig)
          orig_function == get_function_from_signature(c1, sig)
      IN  find_new_modified(c1, c2, k + 1,
            IF ~In(sig, func_sigs(c1))
            THEN [acc EXCEPT
                    !.new_modified_functions = Append(@, function),
                    !.new_functions = Append(@, function),
                    !.new_modified_function_vars =
                        @ \o function.state_variables_read
                          \o function.state_variables_written]
            ELSE record_function(acc, function,
                    IF function.is_constructor_variables THEN "None"
                    ELSE is_function_modified(orig_function.body,
                                              function.body)))

skipped_not_new_modified(function, nmf) ==
    function.is_constructor \/ has_slither_prefix(function)

\* lines 131-136: the functions the second loop skips
skipped(function, nmf) ==
    \/ In(function, nmf)
    \/ function.is_constructor
    \/ has_slither_prefix(function)

\* lines 137-139
modified_calls(function, nmf) ==
    SelectSeq(nmf, LAMBDA func :
                      func.solidity_signature \in function.internal_calls)

tainted_vars_with_immutable(function, nmfv) ==
    {var \in Range(nmfv) :
        /\ In(var, variables_read_or_written(function))
        /\ ~var.is_constant}

\* lines 140-146, the set as a set
tainted_vars(function, nmfv) ==
    {var \in Range(nmfv) :
        /\ In(var, variables_read_or_written(function))
        /\ ~var.is_constant
        /\ ~var.is_immutable}

\* lines 130-148
find_tainted_functions(c2, nmf, nmfv) ==
    SelectSeq(c2.functions,
              LAMBDA function :
                  /\ ~skipped(function, nmf)
                  /\ \/ Len(modified_calls(function, nmf)) > 0
                     \/ Cardinality(tainted_vars(function, nmfv)) > 0)

\* line 154
is_new_variable(c1, var) ==
    get_state_variable_from_name(c1, var.name) = None

\* lines 156-159
is_tainted_variable(c2, var, nmf, tainted) ==
    \E func \in Range(nmf \o tainted) :
        \/ In(func, get_functions_reading_from_variable(c2, var))
        \/ In(func, get_functions_writing_to_variable(c2, var))

\* lines 151-155
find_new_variables(c1, c2) ==
    SelectSeq(order_vars(c2), LAMBDA var : is_new_variable(c1, var))

\* lines 151-160
find_tainted_variables(c1, c2, nmf, tainted) ==
    SelectSeq(order_vars(c2),
              LAMBDA var :
                  /\ ~is_new_variable(c1, var)
                  /\ is_tainted_variable(c2, var, nmf, tainted))

(***************************************************************************)
(* create_state_variable_from_slot(slot, name=None).  An optional str is   *)
(* <<>> for None and <<s>> for the string s.                               *)
(***************************************************************************)
\* 32 bytes = 64 chars + "0x" = 66 chars
SlotLen == 66

StateVariable(n, const, immut, type, expr) ==
    [cls |-> "StateVariable", name |-> n, is_constant |-> const,
     is_immutable |-> immut, type |-> type, expression |-> expr]

Literal(value, type) == [cls |-> "Literal", value |-> value, type |-> type]

create_state_variable_from_slot_no_prefix(s, n) ==
    IF Len(s) = SlotLen
    THEN StateVariable(IF n # <<>> THEN n[1] ELSE s, TRUE, FALSE,
                       ElementaryType("bytes32"),
                       Literal(s, ElementaryType("bytes32")))
    ELSE None

create_state_variable_from_slot(s, n) ==
    IF Len(s) = SlotLen /\ StartsWith(s, "0x")
    THEN StateVariable(IF n # <<>> THEN n[1] ELSE s, TRUE, FALSE,
                       ElementaryType("bytes32"),
                       Literal(s, ElementaryType("bytes32")))
    ELSE None

\* The tokens tried: a prefix and one character repeated, of a length
\* around SlotLen or short.
SlotSlack == 1
SlotTokens ==
    {p \o Rep(c, l - Len(p)) :
        p \in {"0x", "0X", "x0", ""}, c \in {"1", "f", "z"},
        l \in ((SlotLen - SlotSlack)..(SlotLen + SlotSlack)) \cup {6}}
SlotNames == {<<>>, <<"">>, <<"impl">>}

InitSlot ==
    /\ pc = "create_state_variable_from_slot"
    /\ slot \in SlotTokens
    /\ name \in SlotNames
    /\ created = None
    /\ WalkIdle /\ CompareIdle /\ AsmIdle /\ ProxyIdle

CreateStateVariableFromSlot ==
    /\ pc = "create_state_variable_from_slot"
    /\ created' = create_state_variable_from_slot(slot, name)
    /\ pc' = "returned"
    /\ UNCHANGED <<slot, name, walkVars, compareVars, asmVars, proxyVars>>

NextSlot == CreateStateVariableFromSlot

SpecSlot == InitSlot /\ [][NextSlot]_vars

\* a well-formed 32-byte hex literal: 66 characters, "0x", then hex digits
IsBytes32HexLiteral(s) ==
    /\ Len(s) = SlotLen
    /\ StartsWith(s, "0x")
    /\ AllIn(SubSeq(s, 3, Len(s)), HexDigits)

\* what C9 says is returned for a well-formed token
SlotVariable(s, n) ==
    [cls |-> "StateVariable", name |-> (IF n = <<>> THEN s ELSE n[1]),
     is_constant |-> TRUE, is_immutable |-> FALSE,
     type |-> ElementaryType("bytes32"),
     expression |-> [cls |-> "Literal", value |-> s,
                     type |-> ElementaryType("bytes32")]]

\* C9 as claimed: a constant bytes32 variable with value slot, named name or
\* else slot, is returned exactly when slot is a well-formed 32-byte hex
\* literal (66 characters, "0x", hex digits); every other token gives None.
C9_Original ==
    pc = "returned" =>
        created = (IF IsBytes32HexLiteral(slot)
                   THEN SlotVariable(slot, name) ELSE None)

\* C9 amended: a constant bytes32 variable with value slot, named name or
\* else slot, is returned exactly when slot has 66 characters and starts
\* with "0x" (its other characters are not looked at); every other token
\* gives None.
C9_SlotSynthesis ==
    pc = "returned" =>
        created = (IF Len(slot) = SlotLen /\ SubSeq(slot, 1, 2) = "0x"
                   THEN SlotVariable(slot, name) ELSE None)

\* a 66-character "0x" token that is no hex literal was given, with no name
C9_Witness ==
    /\ pc = "returned"
    /\ Len(slot) = SlotLen /\ StartsWith(slot, "0x")
    /\ ~IsBytes32HexLiteral(slot)
    /\ name = <<>>
    /\ created # None /\ created.name = slot


(***************************************************************************)
(* extract_delegate_from_asm(contract, node) and                           *)
(* find_delegate_from_name(contract, dest, parent_func).  Here a contract  *)
(* is a record: state_variables_ordered the list of its state variables    *)
(* and layout the list of their slots                                      *)
(* (SlitherReadStorage.get_variable_info(contract, v)[0]).  A function is  *)
(* a record: variables_read_or_written, local_variables, parameters,       *)
(* returns, contains_assembly and nodes (all_nodes()).  A node is a        *)
(* record: type, irs, inline_asm (<<>> when it is no str, <<text>> when it *)
(* is the str text) and expression.  A raised exception is the record      *)
(* Raised(class).                                                          *)
(***************************************************************************)
Raised(e) == [cls |-> e]
Exceptions == {"IndexError", "ValueError"}
IsRaised(r) == r.cls \in Exceptions

LocalVariable(n, expr) ==
    [cls |-> "LocalVariable", name |-> n, expression |-> expr]
Identifier(value) == [cls |-> "Identifier", value |-> value]

\* s.strip(), of blanks
RECURSIVE Strip(_)
Strip(s) ==
    IF Len(s) > 0 /\ SubSeq(s, 1, 1) = " " THEN Strip(SubSeq(s, 2, Len(s)))
    ELSE IF Len(s) > 0 /\ SubSeq(s, Len(s), Len(s)) = " "
         THEN Strip(SubSeq(s, 1, Len(s) - 1))
    ELSE s

DigitValue(c) ==
    CASE c = "0" -> 0 [] c = "1" -> 1 [] c = "2" -> 2 [] c = "3" -> 3
      [] c = "4" -> 4 [] c = "5" -> 5 [] c = "6" -> 6 [] c = "7" -> 7
      [] c = "8" -> 8 [] c = "9" -> 9

\* int(s), s.isnumeric()
RECURSIVE NatOf(_)
NatOf(s) ==
    IF Len(s) = 0 THEN 0
    ELSE 10 * NatOf(SubSeq(s, 1, Len(s) - 1))
            + DigitValue(SubSeq(s, Len(s), Len(s)))

\* int(s) of any str: blanks around and a sign are accepted (the texts tried
\* hold no underscore between digits); <<>> when int raises ValueError,
\* <<i>> when it returns i
int(s) ==
    LET t == Strip(s)
        signed == Len(t) > 0 /\ SubSeq(t, 1, 1) \in {"+", "-"}
        d == IF signed THEN SubSeq(t, 2, Len(t)) ELSE t
    IN  IF ~IsNumeric(d) THEN <<>>
        ELSE IF signed /\ SubSeq(t, 1, 1) = "-" THEN <<0 - NatOf(d)>>
        ELSE <<NatOf(d)>>

\* lines 480-487, 543-550: the first state variable at slot slot_idx
variable_at_slot(c, slot_idx) ==
    LET vs == c.state_variables_ordered IN
    IF \E i \in 1..Len(vs) : c.layout[i] = slot_idx
    THEN vs[CHOOSE i \in 1..Len(vs) :
            c.layout[i] = slot_idx
            /\ \A j \in 1..(i - 1) : c.layout[j] # slot_idx]
    ELSE None

\* the first element of seq of the name n, None when there is none
first_named(seq, n) ==
    IF \E i \in 1..Len(seq) : seq[i].name = n
    THEN seq[CHOOSE i \in 1..Len(seq) :
            seq[i].name = n /\ \A j \in 1..(i - 1) : seq[j].name # n]
    ELSE None

\* lines 529-536: the first line of text that, its blanks removed, contains
\* dest:=sload( ; <<>> when there is none
sload_line(text, dest) ==
    LET lines == Split(text, "\n")
        hit(l) == Contains(Replace(l, " ", ""), dest \o ":=sload(")
    IN  IF \E i \in 1..Len(lines) : hit(lines[i])
        THEN <<lines[CHOOSE i \in 1..Len(lines) :
                  hit(lines[i]) /\ \A j \in 1..(i - 1) : ~hit(lines[j])]>>
        ELSE <<>>

\* lines 527-552: the loop over the nodes of parent_func from the k-th
RECURSIVE scan_sload(_, _, _, _)
scan_sload(c, dest, parent_func, k) ==
    IF k > Len(parent_func.nodes) THEN None
    ELSE
      LET n == parent_func.nodes[k]
          asm == IF n.type = "ASSEMBLY" /\ n.inline_asm # <<>>
                 THEN sload_line(n.inline_asm[1], dest) ELSE <<>>
      IN  \* "if asm": an empty line is false
          IF asm = <<>> \/ asm = <<"">>
          THEN scan_sload(c, dest, parent_func, k + 1)
          ELSE IF Len(Split(asm[1], "sload(")) < 2 THEN Raised("IndexError")
          ELSE LET sl == Split(Split(asm[1], "sload(")[2], ")")[1] IN
               IF StartsWith(sl, "0x")
               THEN create_state_variable_from_slot(sl, <<dest>>)
               ELSE IF int(sl) = <<>> THEN Raised("ValueError")
               ELSE variable_at_slot(c, int(sl)[1])

find_delegate_from_name(c, dest, parent_func) ==
    IF first_named(c.state_variables, dest) # None
    THEN first_named(c.state_variables, dest)
    ELSE IF first_named(parent_func.local_variables, dest) # None
    THEN first_named(parent_func.local_variables, dest)
    ELSE IF first_named(parent_func.parameters \o parent_func.returns, dest)
                # None
    THEN first_named(parent_func.parameters \o parent_func.returns, dest)
    ELSE IF parent_func.contains_assembly
    THEN scan_sload(c, dest, parent_func, 1)
    ELSE None

\* lines 488-496: the loop over the variables the function reads or writes,
\* from the k-th; None when the loop ends without a return
RECURSIVE constant_slot_of(_, _, _)
constant_slot_of(vs, dest, k) ==
    IF k > Len(vs) THEN None
    ELSE
      LET v0 == vs[k]
          v == IF /\ v0.cls \in LocalVariableClasses
                  /\ v0.expression # None
                  /\ v0.expression.cls = "Identifier"
                  /\ v0.expression.value.cls = "StateVariable"
               THEN v0.expression.value ELSE v0
      IN  IF v0.name = dest /\ v.cls = "StateVariable" /\ v.is_constant
          THEN v
          ELSE constant_slot_of(vs, dest, k + 1)

\* lines 497-499
strip_suffix(dest) ==
    IF Contains(dest, "_fallback_asm") \/ Contains(dest, "_slot")
    THEN Split(dest, "_")[1] ELSE dest

\* lines 474-499, dest the argument chosen at lines 471-473
resolve_dest(c, function, dest) ==
    IF StartsWith(dest, "sload(")
    THEN LET d == Split(Replace(dest, ")", "("), "(")[2] IN
         IF StartsWith(d, "0x") THEN create_state_variable_from_slot(d, <<>>)
         ELSE IF IsNumeric(d) THEN variable_at_slot(c, NatOf(d))
         ELSE IF constant_slot_of(function.variables_read_or_written, d, 1)
                    # None
         THEN constant_slot_of(function.variables_read_or_written, d, 1)
         ELSE find_delegate_from_name(c, strip_suffix(d), function)
    ELSE find_delegate_from_name(c, strip_suffix(dest), function)

\* line 469: the first line that contains delegatecall
delegatecall_line(text) ==
    LET lines == Split(text, "\n") IN
    lines[CHOOSE i \in 1..Len(lines) :
            /\ Contains(lines[i], "delegatecall")
            /\ \A j \in 1..(i - 1) : ~Contains(lines[j], "delegatecall")]

\* node is a node of function whose inline_asm is a str that contains
\* delegatecall
extract_delegate_from_asm(c, function, n) ==
    LET asm == delegatecall_line(n.inline_asm[1])
        calls == Split(asm, "call(")
    IN  IF Len(calls) < 2 THEN Raised("IndexError")
        ELSE LET params == Split(calls[2], ", ") IN
             IF Len(params) < 2 THEN Raised("IndexError")
             ELSE IF EndsWith(params[2], ")") /\ ~StartsWith(params[2], "sload(")
             THEN IF Len(params) < 3 THEN Raised("IndexError")
                  ELSE resolve_dest(c, function, params[3])
             ELSE resolve_dest(c, function, params[2])

(***************************************************************************)
(* find_delegate_in_fallback and get_proxy_implementation_var.  A proxy is *)
(* a contract record with is_upgradeable_proxy and fallback_function (None *)
(* or a function).  An operation of a node is a record with cls; a         *)
(* LowLevelCall has function_name and destination.  An expression is a     *)
(* record with cls: a CallExpression has called (str(expression.called))   *)
(* and arguments, an AssignmentOperation has expression_right.             *)
(***************************************************************************)
LowLevelCall(function_name, destination) ==
    [cls |-> "LowLevelCall", function_name |-> function_name,
     destination |-> destination]
CallExpression(called, arguments) ==
    [cls |-> "CallExpression", called |-> called, arguments |-> arguments]
AssignmentOperation(expression_right) ==
    [cls |-> "AssignmentOperation", expression_right |-> expression_right]

\* lines 419-421: delegate after the loop over the operations of a node,
\* from the k-th: every delegatecall LowLevelCall overwrites it
RECURSIVE destination_of(_, _, _)
destination_of(irs, k, d) ==
    IF k > Len(irs) THEN d
    ELSE destination_of(irs, k + 1,
            IF irs[k].cls = "LowLevelCall"
               /\ irs[k].function_name = "delegatecall"
            THEN irs[k].destination ELSE d)

\* lines 431-451: [break |-> whether the loop is left, delegate |-> the
\* value of delegate after the branch], or the exception raised
expression_delegate(n, d) ==
    LET e0 == n.expression
        expression == IF e0.cls = "AssignmentOperation"
                      THEN e0.expression_right ELSE e0
    IN  IF /\ expression.cls = "CallExpression"
           /\ Contains(expression.called, "delegatecall")
           /\ Len(expression.arguments) > 1
        THEN LET a == expression.arguments[2]
                 unwrap == a.cls = "CallExpression"
                           /\ Contains(a.called, "sload")
             IN  IF unwrap /\ Len(a.arguments) = 0 THEN Raised("IndexError")
                 ELSE LET dest == IF unwrap THEN a.arguments[1] ELSE a IN
                      IF dest.cls = "Identifier"
                      THEN [cls |-> "branch", break |-> TRUE,
                            delegate |-> dest.value]
                      ELSE IF dest.cls = "Literal" /\ Len(dest.value) = SlotLen
                      THEN [cls |-> "branch", break |-> TRUE,
                            delegate |->
                              create_state_variable_from_slot(dest.value, <<>>)]
                      ELSE [cls |-> "branch", break |-> FALSE, delegate |-> d]
        ELSE [cls |-> "branch", break |-> FALSE, delegate |-> d]

\* lines 418-452: the loop over the nodes of the fallback from the k-th,
\* delegate being d
RECURSIVE scan_fallback(_, _, _)
scan_fallback(p, k, d) ==
    LET fallback == p.fallback_function IN
    IF k > Len(fallback.nodes) THEN d
    ELSE
      LET n == fallback.nodes[k]
          d1 == destination_of(n.irs, 1, d)
      IN  IF d1 # None THEN d1
          ELSE IF /\ n.type = "ASSEMBLY"
                  /\ n.inline_asm # <<>>
                  /\ Contains(n.inline_asm[1], "delegatecall")
          THEN LET r == extract_delegate_from_asm(p, fallback, n) IN
               IF IsRaised(r) THEN r ELSE scan_fallback(p, k + 1, r)
          ELSE IF n.type = "EXPRESSION"
          THEN LET b == expression_delegate(n, d1) IN
               IF IsRaised(b) THEN b
               ELSE IF b.break THEN b.delegate
               ELSE scan_fallback(p, k + 1, b.delegate)
          ELSE scan_fallback(p, k + 1, d1)

find_delegate_in_fallback(p) == scan_fallback(p, 1, None)

\* lines 398-401 with no except clause: next(...) of an exhausted generator
first_state_variable_or_none(deps, d) ==
    IF \E i \in 1..Len(deps) : deps[i].cls = "StateVariable"
    THEN deps[CHOOSE i \in 1..Len(deps) :
            /\ deps[i].cls = "StateVariable"
            /\ \A j \in 1..(i - 1) : deps[j].cls # "StateVariable"]
    ELSE None

\* lines 398-401: the first state variable of the dependencies, the local
\* variable itself when there is none (StopIteration)
first_state_variable(deps, d) ==
    IF \E i \in 1..Len(deps) : deps[i].cls = "StateVariable"
    THEN deps[CHOOSE i \in 1..Len(deps) :
            /\ deps[i].cls = "StateVariable"
            /\ \A j \in 1..(i - 1) : deps[j].cls # "StateVariable"]
    ELSE d


(***************************************************************************)
(* The functions is_function_modified is run on.                           *)
(***************************************************************************)
MaxNodes == 3

uint256 == ElementaryType("uint256")
StateA == Var("StateVariable", "a", uint256, "")
LocalL == Var("LocalVariable", "l", uint256, "memory")
Const1 == Var("Constant", "1", uint256, "")
Tmp0 == Var("TemporaryVariable", "TMP_0", uint256, "")

OpAssign == [cls |-> "Assignment", lvalue |-> StateA, rvalue |-> Const1]
OpCondition == [cls |-> "Condition", value |-> LocalL]
OpBinary == [cls |-> "Binary", lvalue |-> Tmp0, variable_left |-> StateA,
             type |-> "+", variable_right |-> LocalL]

\* the lists of operations a node carries
BaseIrs == {<<>>, <<OpAssign>>, <<OpCondition>>, <<OpAssign, OpBinary>>}

\* A renaming of the names the author of a contract chose: the state
\* variable a becomes x, the local variable l becomes m.
RenameName(n) == IF n = "a" THEN "x" ELSE IF n = "l" THEN "m" ELSE n
RenameVar(v) ==
    IF v.cls \in {"StateVariable"} \cup LocalVariableClasses
    THEN [v EXCEPT !.name = RenameName(@)] ELSE v
VarFields == {"lvalue", "rvalue", "variable_left", "variable_right", "value",
              "variable", "call_value"}
RenameIr(ir) ==
    [fld \in DOMAIN ir |->
        IF fld \in VarFields THEN RenameVar(ir[fld]) ELSE ir[fld]]
RenameIrs(irs) == [i \in 1..Len(irs) |-> RenameIr(irs[i])]

\* The control-flow graphs: a chain 1 -> 2 -> ... -> n with at most one more
\* edge i -> j, put before or after the sons i has (a branch, a loop back, a
\* self loop, a second way into a node).
Chain(n) == [k \in 1..n |-> IF k < n THEN <<k + 1>> ELSE <<>>]
ShapesOf(n) ==
    {Chain(n)} \cup
    {[Chain(n) EXCEPT ![i] = IF front THEN <<j>> \o @ ELSE @ \o <<j>>] :
        i \in 1..n, j \in 1..n, front \in BOOLEAN}
Shapes == UNION {ShapesOf(n) : n \in 1..MaxNodes}

\* every node carries the list d but one, which carries e
Labelings(n) ==
    {[k \in 1..n |-> IF k = s THEN e ELSE d] :
        d \in BaseIrs, e \in BaseIrs, s \in 1..n}

FunctionBody(id, hash, sons, irs) ==
    [id |-> id, content_hash |-> hash, nodes |-> Len(sons), sons |-> sons,
     irs |-> irs]

\* the same function with another source text: a comment changed (the
\* operations stay), its variables renamed, or the operations of one node
\* replaced
Variants(g) ==
    {FunctionBody(2, 2, g.sons, g.irs),
     FunctionBody(2, 2, g.sons, [n \in 1..g.nodes |-> RenameIrs(g.irs[n])])}
    \cup {FunctionBody(2, 2, g.sons, [g.irs EXCEPT ![t] = e]) :
            t \in 1..g.nodes, e \in BaseIrs}

\* f1, with id 1 and content hash 1
LabelledFunctions ==
    UNION {{FunctionBody(1, 1, sons, irs) :
                sons \in ShapesOf(n), irs \in Labelings(n)} : n \in 1..MaxNodes}

\* a function all of whose nodes carry the same list
UniformFunctions(id, hash) ==
    {FunctionBody(id, hash, sons, [n \in 1..Len(sons) |-> d]) :
        sons \in Shapes, d \in BaseIrs}

\* f2 is f1 unchanged (the same content hash), a variant of f1 of the same
\* shape, or a function of any shape
InitWalk ==
    /\ pc = "is_function_modified"
    /\ \/ /\ f1 \in LabelledFunctions
          /\ f2 \in Variants(f1) \cup {[f1 EXCEPT !.id = 2]}
       \/ /\ f1 \in UniformFunctions(1, 1)
          /\ f2 \in UniformFunctions(2, 2)
    /\ queue_f1 = <<>> /\ queue_f2 = <<>> /\ visited = <<>>
    /\ modified = "None"
    /\ SlotIdle /\ CompareIdle /\ AsmIdle /\ ProxyIdle

\* lines 210-216: the content hashes are compared; when they differ the
\* queues are seeded with the entry points
IsFunctionModified ==
    /\ pc = "is_function_modified"
    /\ IF same_content_hash(f1, f2)
       THEN /\ modified' = "False"
            /\ pc' = "returned"
            /\ UNCHANGED <<queue_f1, queue_f2, visited>>
       ELSE /\ queue_f1' = <<1>>
            /\ queue_f2' = <<1>>
            /\ visited' = <<>>
            /\ pc' = "while"
            /\ UNCHANGED modified
    /\ UNCHANGED <<f1, f2, slotVars, compareVars, asmVars, proxyVars>>

\* lines 217-225: one turn of the while loop
WalkStep ==
    /\ pc = "while"
    /\ Len(queue_f1) > 0 /\ Len(queue_f2) > 0
    /\ LET st == walk_step(f1, f2, queue_f1, queue_f2, visited)
       IN  /\ queue_f1' = st.queue_f1
           /\ queue_f2' = st.queue_f2
           /\ visited' = st.visited
           /\ IF st.result = "continue"
              THEN UNCHANGED <<pc, modified>>
              ELSE modified' = st.result /\ pc' = "returned"
    /\ UNCHANGED <<f1, f2, slotVars, compareVars, asmVars, proxyVars>>

\* lines 217, 226: a queue is empty, the loop ends and False is returned
WalkReturn ==
    /\ pc = "while"
    /\ ~(Len(queue_f1) > 0 /\ Len(queue_f2) > 0)
    /\ modified' = "False"
    /\ pc' = "returned"
    /\ UNCHANGED <<f1, f2, queue_f1, queue_f2, visited,
                   slotVars, compareVars, asmVars, proxyVars>>

NextWalk == IsFunctionModified \/ WalkStep \/ WalkReturn

SpecWalk == InitWalk /\ [][NextWalk]_vars

\* The walks that drain the queues: f1 and f2 are graphs of any two shapes
\* whose nodes all carry the same operation, so that no turn of the loop
\* returns before the queues are empty; f2 may also be f1 itself, with the
\* content hash of f1.
InitWalkLive ==
    /\ InitWalk
    /\ \A n \in 1..f1.nodes : f1.irs[n] = <<OpAssign>>
    /\ \A n \in 1..f2.nodes : f2.irs[n] = <<OpAssign>>

\* is_function_modified runs to its end: a turn of the loop that can be
\* taken is taken
SpecWalkLive == InitWalkLive /\ [][NextWalk]_vars /\ WF_vars(NextWalk)

\* the two control-flow graphs have the same shape: as many nodes, and each
\* node the same sons in the same order
SameShape(g1, g2) == g1.nodes = g2.nodes /\ g1.sons = g2.sons

\* node by node and position by position, the operations of the two
\* functions have the same canonical encoding
SameEncodings(g1, g2) ==
    \A n \in 1..g1.nodes :
        /\ Len(g1.irs[n]) = Len(g2.irs[n])
        /\ \A i \in 1..Len(g1.irs[n]) :
              encode_ir_for_compare(g1.irs[n][i])
                  = encode_ir_for_compare(g2.irs[n][i])

\* C5: two functions whose content hashes differ, whose control-flow graphs
\* have the same shape and whose nodes carry, position by position,
\* operations of the same canonical encoding are reported unmodified:
\* is_function_modified returns False.
C5_SameEncodingsUnmodified ==
    (/\ pc = "returned"
     /\ ~same_content_hash(f1, f2)
     /\ SameShape(f1, f2)
     /\ SameEncodings(f1, f2)) => modified = "False"

\* such a walk has ended: the hashes differ, the graphs have a loop or a
\* branch, the operations differ (a variable was renamed) and their
\* encodings do not
C5_Witness ==
    /\ pc = "returned"
    /\ ~same_content_hash(f1, f2)
    /\ SameShape(f1, f2) /\ SameEncodings(f1, f2)
    /\ f1.nodes = MaxNodes
    /\ \E n \in 1..f1.nodes : Len(f1.sons[n]) = 2
    /\ \E n \in 1..f1.nodes : f1.irs[n] # f2.irs[n]
    /\ Len(visited) >= 2 * MaxNodes
    /\ modified = "False"

\* f2 is f1 with its state and local variables renamed, and nothing else
\* changed but the content hash
RenamedCopy(g1, g2) ==
    /\ ~same_content_hash(g1, g2)
    /\ SameShape(g1, g2)
    /\ \A n \in 1..g1.nodes : g2.irs[n] = RenameIrs(g1.irs[n])

\* C6: the canonical encodings do not depend on the names of variables: a
\* function and a copy of it that differs only by a consistent renaming of
\* its state and local variables are reported unmodified, whatever the
\* operations (binary operations included).
C6_RenameUnmodified ==
    (pc = "returned" /\ RenamedCopy(f1, f2)) => modified = "False"

\* the pairs of nodes the walk has dequeued: visited holds them two by two,
\* the node of f1 and then the node of f2
DequeuedPairs ==
    {<<visited[2 * k - 1][2], visited[2 * k][2]>> :
        k \in 1..(Len(visited) \div 2)}

\* the operation lists of the two nodes have different lengths, or hold at
\* one index operations whose canonical encodings differ
NodesDiffer(n1, n2) ==
    \/ Len(f1.irs[n1]) # Len(f2.irs[n2])
    \/ \E i \in 1..Len(f1.irs[n1]) :
          /\ i <= Len(f2.irs[n2])
          /\ encode_ir_for_compare(f1.irs[n1][i])
                # encode_ir_for_compare(f2.irs[n2][i])

\* C11: for two functions whose content hashes differ, is_function_modified
\* returns True whenever the walk has dequeued a pair of nodes whose
\* operation lists have different lengths (the node of f1 the longer, or the
\* node of f2) or hold at one index operations of different encodings; it
\* neither raises nor returns False then.
C11_DifferenceIsModified ==
    (/\ pc = "returned"
     /\ ~same_content_hash(f1, f2)
     /\ \E p \in DequeuedPairs : NodesDiffer(p[1], p[2]))
    => modified = "True"

\* how many times the node n stands in the queue q
Occurrences(q, n) == Cardinality({i \in 1..Len(q) : q[i] = n})

\* a turn of the loop puts no node that has been dequeued (the nodes
\* dequeued in this turn included) into the queue of its function
NeverEnqueuedAgain ==
    /\ \A n \in 1..f1.nodes :
          (\E k \in 1..Len(visited') : visited'[k] = <<f1.id, n>>)
          => Occurrences(queue_f1', n) <= Occurrences(queue_f1, n)
    /\ \A n \in 1..f2.nodes :
          (\E k \in 1..Len(visited') : visited'[k] = <<f2.id, n>>)
          => Occurrences(queue_f2', n) <= Occurrences(queue_f2, n)

\* C12: the walk of is_function_modified terminates for every pair of
\* finite control-flow graphs, with loops and with nodes that share a son:
\* a node that has been dequeued is never enqueued again, and
\* is_function_modified comes to its end.
C12_WalkTerminates ==
    /\ [][pc = "while" => NeverEnqueuedAgain]_vars
    /\ <>(pc = "returned")

\* a walk has come to its end with both queues drained, over graphs with a
\* loop back to a node that has another father, every node of f1 dequeued
C12_Witness ==
    /\ pc = "returned"
    /\ ~same_content_hash(f1, f2)
    /\ modified = "False"
    /\ queue_f1 = <<>> /\ queue_f2 = <<>>
    /\ \E i \in 2..f1.nodes : \E j \in 2..i :
          \E k \in 1..Len(f1.sons[i]) : f1.sons[i][k] = j
    /\ \A n \in 1..f1.nodes :
          \E k \in 1..Len(visited) : visited[k] = <<f1.id, n>>

\* a walk has come to its end after a node was dequeued twice: two fathers
\* had enqueued it before it was first dequeued
C12_WitnessTwice ==
    /\ pc = "returned"
    /\ modified = "False"
    /\ \E k, l \in 1..Len(visited) : k < l /\ visited[k] = visited[l]

(***************************************************************************)
(* The contracts compare is run on.                                        *)
(***************************************************************************)
MaxVars == 2

VarA == StateVariable("a", FALSE, FALSE, uint256, None)
VarB == StateVariable("b", FALSE, FALSE, uint256, None)
VarC == StateVariable("c", FALSE, FALSE, uint256, None)
VarK == StateVariable("k", TRUE, FALSE, uint256, None)
VarI == StateVariable("i", FALSE, TRUE, uint256, None)
\* a constant of the name of VarA
VarAConstant == StateVariable("a", TRUE, FALSE, uint256, None)
StateVars == {VarA, VarB, VarC, VarK, VarI, VarAConstant}

RECURSIVE SeqsUpTo(_, _)
SeqsUpTo(S, n) ==
    IF n = 0 THEN {<<>>}
    ELSE SeqsUpTo(S, n - 1) \cup
         {Append(q, x) : q \in SeqsUpTo(S, n - 1), x \in S}

\* the lists of at most MaxVars state variables of distinct names
VarLists ==
    {vl \in SeqsUpTo(StateVars, MaxVars) :
        \A i, j \in 1..Len(vl) : i # j => vl[i].name # vl[j].name}

\* The bodies of the functions.  BodyOld is the body in v1.  In v2 the body
\* is unchanged (BodySame), has another source text and the same operations
\* (BodyComment), other operations (BodyChanged) or fewer (BodyShorter).
BodyOld == FunctionBody(1, 1, Chain(1), << <<OpAssign, OpBinary>> >>)
BodySame == FunctionBody(2, 1, Chain(1), << <<OpAssign, OpBinary>> >>)
BodyComment == FunctionBody(2, 2, Chain(1), << <<OpAssign, OpBinary>> >>)
BodyChanged == FunctionBody(2, 3, Chain(1), << <<OpCondition, OpBinary>> >>)
BodyShorter == FunctionBody(2, 4, Chain(1), << <<OpAssign>> >>)
Bodies == {BodySame, BodyComment, BodyChanged, BodyShorter}

Function(n, ctor, ctor_vars, body, calls, reads, writes) ==
    [solidity_signature |-> n \o "()", name |-> n, is_constructor |-> ctor,
     is_constructor_variables |-> ctor_vars, body |-> body,
     internal_calls |-> calls, state_variables_read |-> reads,
     state_variables_written |-> writes]

Contract(vl, fs) == [state_variables_ordered |-> vl, functions |-> fs]

\* what a function reads and writes
Accesses ==
    {<< <<>>, <<>> >>, << <<VarA>>, <<>> >>, << <<>>, <<VarA>> >>,
     << <<VarK>>, <<>> >>, << <<VarI>>, <<>> >>}

\* f: the function that is new in v2, or changed, or neither
Changers ==
    {Function(n, FALSE, n = "slitherConstructorVariables", body, {},
              a[1], a[2]) :
        n \in {"f", "slitherConstructorVariables"}, body \in Bodies,
        a \in Accesses}

\* g: a function v1 has too, with the same content hash
Observers ==
    {Function(n, n = "constructor", FALSE, BodySame, calls, a[1], a[2]) :
        n \in {"g", "constructor", "slitherConstructorConstantVariables"},
        calls \in {{}, {"f()"}}, a \in Accesses}

\* h: another function v1 has too, which may call g
Bystanders ==
    {Function("h", FALSE, FALSE, BodySame, calls, reads, <<>>) :
        calls \in {{}, {"g()"}}, reads \in {<<>>, <<VarA>>}}

\* the state variables of the contracts whose functions vary

FunctionContracts ==
    {Contract(<<VarA, VarK, VarI>>, fs) :
        fs \in UNION {{<<f, g>>, <<g, f>>} \cup
                      {<<f, g, h>> : h \in Bystanders} \cup
                      {<<h, g, f>> : h \in Bystanders} :
                          f \in Changers, g \in Observers}}

\* the contracts whose state variables vary: one function, which reads the
\* first state variable if there is one
VariableContracts ==
    UNION {{Contract(vl, <<Function("f", FALSE, FALSE, body, {}, reads, <<>>)>>) :
                body \in {BodySame, BodyChanged},
                reads \in {<<>>, IF vl = <<>> THEN <<>> ELSE <<vl[1]>>}} : vl \in VarLists}

\* the v1 of a function of v2
Old(function) == [function EXCEPT !.body = BodyOld]

\* the contract c as it was in v1: its functions of a signature in sigs
OldContract(vl, c, sigs) ==
    Contract(vl, [i \in 1..Len(SelectSeq(c.functions,
                        LAMBDA fn : fn.solidity_signature \in sigs)) |->
                    Old(SelectSeq(c.functions,
                        LAMBDA fn : fn.solidity_signature \in sigs)[i])])

Sigs(c) == {c.functions[i].solidity_signature : i \in 1..Len(c.functions)}

\* v1 is v2 itself, or v2 before f was added or changed, or a contract of
\* other state variables
InitCompare ==
    /\ pc = "compare"
    /\ \/ /\ v2 \in FunctionContracts
          /\ v1 \in {v2} \cup
                    {OldContract(v2.state_variables_ordered, v2, sigs) :
                        sigs \in {Sigs(v2), Sigs(v2) \ {"f()"}}}
       \/ /\ v2 \in VariableContracts
          /\ v1 \in {v2} \cup {OldContract(vl, v2, Sigs(v2)) : vl \in VarLists}
    /\ missing_vars_in_v2 = <<>>
    /\ new_variables = <<>>
    /\ tainted_variables = <<>>
    /\ new_functions = <<>>
    /\ modified_functions = <<>>
    /\ tainted_functions = <<>>
    /\ new_modified_functions = <<>>
    /\ new_modified_function_vars = <<>>
    /\ SlotIdle /\ WalkIdle /\ AsmIdle /\ ProxyIdle

\* lines 87-105
CompareMissing ==
    /\ pc = "compare"
    /\ missing_vars_in_v2' = missing_vars_in_v2 \o compare_missing(v1, v2)
    /\ pc' = "functions"
    /\ UNCHANGED <<v1, v2, new_variables, tainted_variables, new_functions,
                   modified_functions, tainted_functions,
                   new_modified_functions, new_modified_function_vars,
                   slotVars, walkVars, asmVars, proxyVars>>

\* lines 107-126; an IndexError of is_function_modified ends compare
CompareFunctions ==
    /\ pc = "functions"
    /\ \E acc \in {find_new_modified(v1, v2, 1,
                    [new_functions |-> new_functions,
                     modified_functions |-> modified_functions,
                     new_modified_functions |-> new_modified_functions,
                     new_modified_function_vars |-> new_modified_function_vars,
                     raised |-> FALSE])} :
           /\ new_functions' = acc.new_functions
           /\ modified_functions' = acc.modified_functions
           /\ new_modified_functions' = acc.new_modified_functions
           /\ new_modified_function_vars' = acc.new_modified_function_vars
           /\ pc' = IF acc.raised THEN "raised" ELSE "tainted"
    /\ UNCHANGED <<v1, v2, missing_vars_in_v2, new_variables,
                   tainted_variables, tainted_functions,
                   slotVars, walkVars, asmVars, proxyVars>>

\* lines 128-148
CompareTainted ==
    /\ pc = "tainted"
    /\ tainted_functions' = tainted_functions \o
          find_tainted_functions(v2, new_modified_functions,
                                 new_modified_function_vars)
    /\ pc' = "variables"
    /\ UNCHANGED <<v1, v2, missing_vars_in_v2, new_variables,
                   tainted_variables, new_functions, modified_functions,
                   new_modified_functions, new_modified_function_vars,
                   slotVars, walkVars, asmVars, proxyVars>>

\* lines 150-169
CompareVariables ==
    /\ pc = "variables"
    /\ new_variables' = new_variables \o find_new_variables(v1, v2)
    /\ tainted_variables' = tainted_variables \o
          find_tainted_variables(v1, v2, new_modified_functions,
                                 tainted_functions)
    /\ pc' = "returned"
    /\ UNCHANGED <<v1, v2, missing_vars_in_v2, new_functions,
                   modified_functions, tainted_functions,
                   new_modified_functions, new_modified_function_vars,
                   slotVars, walkVars, asmVars, proxyVars>>

NextCompare ==
    CompareMissing \/ CompareFunctions \/ CompareTainted \/ CompareVariables

SpecCompare == InitCompare /\ [][NextCompare]_vars

\* C1: compare(C, C) returns, and returns the six lists empty: missing
\* variables, new variables, tainted variables, new functions, modified
\* functions and tainted functions.
C1_Identity ==
    v1 = v2 =>
        /\ pc # "raised"
        /\ missing_vars_in_v2 = <<>>
        /\ new_variables = <<>>
        /\ tainted_variables = <<>>
        /\ new_functions = <<>>
        /\ modified_functions = <<>>
        /\ tainted_functions = <<>>

\* compare(C, C) has returned, for a contract C of three functions that call
\* one another and use a state variable C declares
C1_Witness ==
    /\ pc = "returned"
    /\ v1 = v2
    /\ Len(v2.functions) = 3
    /\ \E i, j \in 1..Len(v2.functions) :
          /\ i # j
          /\ v2.functions[j].solidity_signature
                \in v2.functions[i].internal_calls
          /\ In(VarA, variables_read_or_written(v2.functions[i]))
          /\ In(VarA, variables_read_or_written(v2.functions[j]))
    /\ In(VarA, order_vars(v2))

\* no element of a list is an element of the other
Disjoint(s, t) == Range(s) \cap Range(t) = {}

\* C2: the lists compare builds are disjoint by category: no function is in
\* more than one of new_functions, modified_functions and
\* tainted_functions, and no variable in more than one of
\* missing_vars_in_v2, new_variables and tainted_variables.
C2_Disjoint ==
    /\ Disjoint(new_functions, modified_functions)
    /\ Disjoint(new_functions, tainted_functions)
    /\ Disjoint(modified_functions, tainted_functions)
    /\ Disjoint(missing_vars_in_v2, new_variables)
    /\ Disjoint(missing_vars_in_v2, tainted_variables)
    /\ Disjoint(new_variables, tainted_variables)

\* compare has returned with a modified function, a tainted function, a
\* tainted variable and a missing or a new variable
C2_Witness ==
    /\ pc = "returned"
    /\ modified_functions # <<>>
    /\ tainted_functions # <<>>
    /\ tainted_variables # <<>>

\* compare has returned with a new function, a missing variable and a new
\* variable
C2_WitnessVariables ==
    /\ pc = "returned"
    /\ missing_vars_in_v2 # <<>>
    /\ new_variables # <<>>

\* the functions compare reports as new or modified
NewOrModified == Range(new_functions) \cup Range(modified_functions)

\* function calls a new or modified function
CallsNewOrModified(function) ==
    \E func \in NewOrModified :
        func.solidity_signature \in function.internal_calls

\* function reads or writes a variable, neither constant nor immutable, that
\* a new or modified function reads or writes
SharesVariableWithNewOrModified(function) ==
    \E var \in Range(function.state_variables_read)
                \cup Range(function.state_variables_written) :
        /\ ~var.is_constant
        /\ ~var.is_immutable
        /\ \E func \in NewOrModified :
              var \in Range(func.state_variables_read)
                        \cup Range(func.state_variables_written)

\* C3: when compare returns, a function of v2 that is neither new nor
\* modified, is no constructor and has not the name prefix "slither" is in
\* tainted_functions if and only if it calls a new or modified function, or
\* reads or writes a variable, neither constant nor immutable, that a new or
\* modified function reads or writes; calling or sharing a variable with a
\* function that is only tainted does not taint.
C3_Tainted ==
    pc = "returned" =>
        \A function \in Range(v2.functions) :
            (/\ function \notin NewOrModified
             /\ ~function.is_constructor
             /\ ~StartsWith(function.name, "slither"))
            => (In(function, tainted_functions)
                    <=> (\/ CallsNewOrModified(function)
                         \/ SharesVariableWithNewOrModified(function)))

\* compare has returned: f is modified, g calls f and is tainted, h calls g
\* and is not tainted; f reads an immutable variable
C3_Witness ==
    /\ pc = "returned"
    /\ \E f \in Range(modified_functions), g \in Range(tainted_functions),
          h \in Range(v2.functions) :
          /\ f.solidity_signature \in g.internal_calls
          /\ g.solidity_signature \in h.internal_calls
          /\ ~In(h, tainted_functions)
          /\ h \notin NewOrModified
          /\ In(VarI, f.state_variables_read)

\* the state variables of c that are neither constant nor immutable
Mutable(c) ==
    SelectSeq(c.state_variables_ordered,
              LAMBDA v : ~(v.is_constant \/ v.is_immutable))

C4_WitnessNotShorter ==
    /\ pc = "returned"
    /\ Len(Mutable(v2)) = Len(Mutable(v1))
    /\ \E w \in Range(Mutable(v1)) :
          \A u \in Range(v2.state_variables_ordered) : u.name # w.name
    /\ missing_vars_in_v2 = <<>>

(***************************************************************************)
(* The assembly extract_delegate_from_asm is run on.                       *)
(***************************************************************************)
bytes32 == ElementaryType("bytes32")
Slot66 == "0x" \o Rep("1", SlotLen - 2)

Owner == StateVariable("owner", FALSE, FALSE,
                  ElementaryType("address"), None)
Implementation == StateVariable("implementation", FALSE, FALSE,
                  ElementaryType("address"), None)
ImplSlot == StateVariable("IMPL_SLOT", TRUE, FALSE, bytes32,
                          Literal(Slot66, bytes32))
Impl == StateVariable("impl", FALSE, FALSE,
                  ElementaryType("address"), None)

\* owner at slot 0, implementation at slot 1; a constant has no slot
AsmContracts ==
    {[state_variables |-> <<Owner, Implementation, ImplSlot>>,
      state_variables_ordered |-> <<Owner, Implementation, ImplSlot>>,
      layout |-> <<0, 1, -1>>],
     [state_variables |-> <<Owner, Impl>>,
      state_variables_ordered |-> <<Owner, Impl>>, layout |-> <<0, 0>>]}

AsmNode(text) ==
    [type |-> "ASSEMBLY", irs |-> <<>>, inline_asm |-> <<text>>,
     expression |-> None]

\* the fallback function of one assembly node: with no variable, or with a
\* local variable slot initialised with the constant IMPL_SLOT and a
\* parameter target
AsmFunctions(text) ==
    {[variables_read_or_written |-> <<>>, local_variables |-> <<>>,
      parameters |-> <<>>, returns |-> <<>>, contains_assembly |-> TRUE,
      nodes |-> <<AsmNode(text)>>],
     [variables_read_or_written |->
          <<LocalVariable("slot", Identifier(ImplSlot)), ImplSlot>>,
      local_variables |-> <<LocalVariable("slot", Identifier(ImplSlot))>>,
      parameters |-> <<LocalVariable("target", None)>>, returns |-> <<>>,
      contains_assembly |-> TRUE,
      nodes |-> <<AsmNode(text)>>]}

\* the line before the line of the delegatecall
AsmFirstLines ==
    {"", "let impl := sload(" \o Slot66 \o ")\n", "let impl := sload(1)\n",
     "let impl := sload(impl_slot)\n", "let impl := sload (1)\n",
     "let impl := sload(0x1234)\n"}

\* the argument of the delegatecall that names the target
AsmTargets ==
    {"impl", "target", "sload(" \o Slot66 \o ")", "sload(0x1234)", "sload(1)",
     "sload(7)", "sload(slot)", "sload(IMPL_SLOT)", "sload(ghost)",
     "impl_slot", "and(impl, mask)"}

AsmDelegateLines ==
    {"// forwards with delegatecall"} \cup
    {"let result := " \o callee \o first \o sep \o target \o rest :
        callee \in {"delegatecall(", "delegatecall ("},
        first \in {"gas", "sub(gas, 10000)"},
        sep \in {", ", ","},
        target \in AsmTargets,
        rest \in {", 0, calldatasize, 0, 0)", ")"}}

AsmTexts == {a \o b : a \in AsmFirstLines, b \in AsmDelegateLines}

InitAsm ==
    /\ pc = "extract_delegate_from_asm"
    /\ contract \in AsmContracts
    /\ \E text \in AsmTexts :
          node \in {[AsmNode(text) EXCEPT !.irs = <<>>] @@ [function |-> fn] :
                        fn \in AsmFunctions(text)}
    /\ extracted = None
    /\ SlotIdle /\ WalkIdle /\ CompareIdle /\ ProxyIdle

\* lines 455-499, with the call of find_delegate_from_name (502-553)
ExtractDelegateFromAsm ==
    /\ pc = "extract_delegate_from_asm"
    /\ extracted' = extract_delegate_from_asm(contract, node.function, node)
    /\ pc' = IF IsRaised(extracted') THEN "raised" ELSE "returned"
    /\ UNCHANGED <<contract, node, slotVars, walkVars, compareVars, proxyVars>>

NextAsm == ExtractDelegateFromAsm

SpecAsm == InitAsm /\ [][NextAsm]_vars

\* C8: the assembly matcher never fails: for every assembly text that
\* contains delegatecall, extract_delegate_from_asm and
\* find_delegate_from_name return a variable or None and raise no error.
C8_NeverRaises ==
    /\ pc # "raised"
    /\ pc = "returned" =>
          extracted.cls \in {"None", "StateVariable", "LocalVariable"}

(***************************************************************************)
(* The proxies get_proxy_implementation_var is run on.                     *)
(***************************************************************************)
MaxFallbackNodes == 3
MaxDeps == 2

Target == LocalVariable("target", None)
Data == LocalVariable("data", None)


\* a node whose operations hold a low-level delegatecall to dest
StructuredNode(dest, irs) ==
    [type |-> "EXPRESSION", irs |-> irs, inline_asm |-> <<>>,
     expression |-> CallExpression(dest.name \o ".delegatecall",
                                   <<Identifier(Data)>>)]

StructuredNodes ==
    {StructuredNode(Implementation,
                    <<LowLevelCall("delegatecall", Implementation)>>),
     StructuredNode(Target,
                    <<LowLevelCall("delegatecall", Owner),
                      LowLevelCall("delegatecall", Target)>>)}

\* assembly kept as text: a delegatecall to a hard-coded slot, to a local
\* variable, to an unknown name, a comment that mentions delegatecall, a
\* block without delegatecall; and assembly that is no str
AssemblyNodes ==
    {AsmNode("let result := delegatecall(gas, sload(" \o Slot66
                 \o "), 0, calldatasize, 0, 0)"),
     AsmNode("let result := delegatecall(gas, target, 0, calldatasize, 0, 0)"),
     AsmNode("let result := delegatecall(gas, ghost, 0, calldatasize, 0, 0)"),
     AsmNode("// forwards with delegatecall"),
     AsmNode("let size := returndatasize"),
     [AsmNode("") EXCEPT !.inline_asm = <<>>]}

ExpressionNode(expression) ==
    [type |-> "EXPRESSION", irs |-> <<>>, inline_asm |-> <<>>,
     expression |-> expression]

\* expressions without a low-level call operation: delegatecall(gas, v, ..),
\* delegatecall(gas, sload(literal), ..), r = delegatecall(gas, short
\* literal, ..), delegatecall(gas)
ExpressionNodes ==
    {ExpressionNode(CallExpression("delegatecall",
        <<Identifier(Data), Identifier(Implementation)>>)),
     ExpressionNode(CallExpression("delegatecall",
        <<Identifier(Data),
          CallExpression("sload", <<Literal(Slot66, bytes32)>>)>>)),
     ExpressionNode(AssignmentOperation(CallExpression("delegatecall",
        <<Identifier(Data), Literal("0x1234", bytes32)>>))),
     ExpressionNode(CallExpression("delegatecall", <<Identifier(Data)>>))}

\* a node that no branch of the scan matches
OtherNodes ==
    {[type |-> "OTHER", irs |-> <<LowLevelCall("call", Owner)>>,
      inline_asm |-> <<>>, expression |-> None]}

FallbackNodes ==
    StructuredNodes \cup AssemblyNodes \cup ExpressionNodes \cup OtherNodes

Fallback(nodes) ==
    [variables_read_or_written |-> <<Target, Implementation>>,
     local_variables |-> <<Target>>, parameters |-> <<>>, returns |-> <<>>,
     contains_assembly |-> \E i \in 1..Len(nodes) : nodes[i].type = "ASSEMBLY",
     nodes |-> nodes]

Proxy(is_upgradeable_proxy, fallback_function) ==
    [state_variables |-> <<Owner, Implementation>>,
     state_variables_ordered |-> <<Owner, Implementation>>,
     layout |-> <<0, 1>>,
     is_upgradeable_proxy |-> is_upgradeable_proxy,
     fallback_function |-> fallback_function]

Proxies ==
    {Proxy(TRUE, Fallback(ns)) : ns \in SeqsUpTo(FallbackNodes, MaxFallbackNodes)}
    \cup {Proxy(FALSE, Fallback(ns)) : ns \in SeqsUpTo(FallbackNodes, 1)}
    \cup {Proxy(b, None) : b \in BOOLEAN}

\* what get_dependencies(delegate, proxy) can give, in the order of
\* iteration
Dependencies == SeqsUpTo({Data, Owner, Implementation}, MaxDeps)

InitProxy ==
    /\ pc = "get_proxy_implementation_var"
    /\ proxy \in Proxies
    /\ dependencies = <<>>
    /\ delegate = None
    /\ SlotIdle /\ WalkIdle /\ CompareIdle /\ AsmIdle

\* lines 392-393
ReturnNone ==
    /\ pc = "get_proxy_implementation_var"
    /\ ~proxy.is_upgradeable_proxy \/ proxy.fallback_function = None
    /\ delegate' = None
    /\ pc' = "returned"
    /\ UNCHANGED <<proxy, dependencies, slotVars, walkVars, compareVars,
                   asmVars>>

\* line 395, with the call of find_delegate_in_fallback (405-452)
FindDelegateInFallback ==
    /\ pc = "get_proxy_implementation_var"
    /\ proxy.is_upgradeable_proxy /\ proxy.fallback_function # None
    /\ delegate' = find_delegate_in_fallback(proxy)
    /\ pc' = IF IsRaised(delegate') THEN "raised" ELSE "found"
    /\ UNCHANGED <<proxy, dependencies, slotVars, walkVars, compareVars,
                   asmVars>>

\* lines 396-401: the delegate found is a local variable, dependencies is
\* what get_dependencies(delegate, proxy) gives
TraceDependencies ==
    /\ pc = "found"
    /\ delegate.cls \in LocalVariableClasses
    /\ dependencies' \in Dependencies
    /\ delegate' = first_state_variable(dependencies', delegate)
    /\ pc' = "returned"
    /\ UNCHANGED <<proxy, slotVars, walkVars, compareVars, asmVars>>

\* lines 396, 402: the delegate found is no local variable
ReturnDelegate ==
    /\ pc = "found"
    /\ delegate.cls \notin LocalVariableClasses
    /\ pc' = "returned"
    /\ UNCHANGED <<proxy, dependencies, delegate, slotVars, walkVars,
                   compareVars, asmVars>>

NextProxy ==
    \/ ReturnNone
    \/ FindDelegateInFallback
    \/ TraceDependencies
    \/ ReturnDelegate

SpecProxy == InitProxy /\ [][NextProxy]_vars

\* the node has a structured low-level delegatecall operation
HasStructuredDelegatecall(n) ==
    \E i \in 1..Len(n.irs) :
        n.irs[i].cls = "LowLevelCall" /\ n.irs[i].function_name = "delegatecall"

\* the node is an assembly block whose text mentions delegatecall
MentionsDelegatecall(n) ==
    n.type = "ASSEMBLY" /\ n.inline_asm # <<>>
    /\ Contains(n.inline_asm[1], "delegatecall")

\* the destination operand of the first structured delegatecall node
StructuredDestination(nodes) ==
    LET k == CHOOSE i \in 1..Len(nodes) :
                /\ HasStructuredDelegatecall(nodes[i])
                /\ \A j \in 1..(i - 1) : ~HasStructuredDelegatecall(nodes[j])
        irs == nodes[k].irs
    IN  irs[CHOOSE i \in 1..Len(irs) :
              /\ irs[i].cls = "LowLevelCall"
              /\ irs[i].function_name = "delegatecall"
              /\ \A j \in (i + 1)..Len(irs) :
                    ~(irs[j].cls = "LowLevelCall"
                      /\ irs[j].function_name = "delegatecall")].destination

\* C7: for a fallback that contains both a node with a structured
\* low-level delegatecall operation and an assembly node whose text mentions
\* delegatecall, find_delegate_in_fallback returns the destination operand
\* of the structured operation, in whatever order the two nodes occur and
\* whatever nodes lie between them.
C7_StructuredWins ==
    (/\ pc = "found"
     /\ \E i \in 1..Len(proxy.fallback_function.nodes) :
           HasStructuredDelegatecall(proxy.fallback_function.nodes[i])
     /\ \E i \in 1..Len(proxy.fallback_function.nodes) :
           MentionsDelegatecall(proxy.fallback_function.nodes[i]))
    => delegate = StructuredDestination(proxy.fallback_function.nodes)

\* C10: when the delegate found in the fallback is a local variable,
\* get_proxy_implementation_var returns the first state variable of the
\* sequence the dependency query gives for that local variable, and the
\* local variable itself when the sequence holds no state variable; it never
\* returns None then.
C10_LocalTraced ==
    [][(pc = "found" /\ delegate.cls \in LocalVariableClasses) =>
        /\ pc' = "returned"
        /\ delegate' # None
        /\ \/ \E i \in 1..Len(dependencies') :
                 /\ dependencies'[i].cls = "StateVariable"
                 /\ \A j \in 1..(i - 1) :
                       dependencies'[j].cls # "StateVariable"
                 /\ delegate' = dependencies'[i]
           \/ /\ \A i \in 1..Len(dependencies') :
                    dependencies'[i].cls # "StateVariable"
              /\ delegate' = delegate]_vars

\* the fallback gave a local variable (the dependencies were queried), they
\* hold a local variable and then a state variable, and the state variable
\* is returned
C10_Witness ==
    /\ pc = "returned"
    /\ Len(dependencies) = 2
    /\ dependencies[1].cls = "LocalVariable"
    /\ dependencies[2].cls = "StateVariable"
    /\ delegate = dependencies[2]

\* the fallback gave a local variable, the dependencies queried hold no
\* state variable, and the local variable is returned
C10_WitnessUntraced ==
    /\ pc = "returned"
    /\ dependencies = <<Data>>
    /\ delegate = Target

====
